---- MODULE Spec2Model ----
(***************************************************************************)
(* Model of patch.py: the batch driver main, the HTML rewriter             *)
(* process_html_file and the image fetcher download_image.                 *)
(*                                                                         *)
(* Documents, style values, paths and URLs are character strings, and the  *)
(* regular expression, str.replace and the substring tests are computed on *)
(* the characters, as Python computes them.  The network and the file      *)
(* system are the environment: every GET draws its answer, and every read  *)
(* and write of a file draws whether it raises.                            *)
(***************************************************************************)
EXTENDS Integers, Sequences, FiniteSets, TLC

(***************************************************************************)
(* Bounds of the model.                                                    *)
(***************************************************************************)
MaxTargets == 2    \* elements the pattern matches in one HTML file
MaxRuns == 2       \* invocations of main on the same directory

(***************************************************************************)
(* Strings.                                                                *)
(***************************************************************************)
DQ == "\""

Min(S) == CHOOSE x \in S : \A y \in S : x <= y

\* s[i : i + len(t)] == t
StartsAt(s, i, t) ==
    /\ i >= 1
    /\ i + Len(t) - 1 <= Len(s)
    /\ SubSeq(s, i, i + Len(t) - 1) = t

\* s.find(t, from), 1-based, 0 when t does not occur at or after from
str_find(s, t, from) ==
    LET I == {i \in from..(Len(s) - Len(t) + 1) : SubSeq(s, i, i + Len(t) - 1) = t}
    IN  IF I = {} THEN 0 ELSE Min(I)

\* t in s
str_contains(s, t) == str_find(s, t, 1) # 0

\* s.startswith(t)
str_startswith(s, t) == StartsAt(s, 1, t)

RECURSIVE str_replace(_, _, _, _)
\* s.replace(old, new, count): left to right, non-overlapping; count < 0
\* replaces every occurrence
str_replace(s, old, new, count) ==
    IF count = 0 THEN s
    ELSE LET i == str_find(s, old, 1)
         IN  IF i = 0 THEN s
             ELSE SubSeq(s, 1, i - 1) \o new
                    \o str_replace(SubSeq(s, i + Len(old), Len(s)), old, new, count - 1)

\* \s of a str pattern: the characters str.isspace() holds for.  A string
\* of this module holds the characters U+0000 to U+00FF, and the module is
\* UTF-8 text.  Listed are the spaces in that range: space, \t, \n, \r, \f,
\* and, written as the characters themselves, U+000B, U+001C to U+001F,
\* U+0085 and U+00A0.  The spaces above U+00FF (U+1680, U+2000 to U+200A,
\* U+2028, U+2029, U+202F, U+205F, U+3000) are not characters of a string
\* here.  patch.py looks at a character in three ways only: is it equal to
\* another one, is it one of the ASCII characters its literals are made of,
\* is it a space; so a text with characters above U+00FF is treated as the
\* text in which each of them is renamed, one to one, to a character of
\* this range that the text does not use and that is a space exactly when
\* it is.
IsSpace(c) ==
    c \in {" ", "\t", "\n", "\r", "\f",
           "", "", "", "", "", "", " "}

RECURSIVE SkipSpace(_, _)
\* the position after the whitespace run \s* that starts at i
SkipSpace(s, i) ==
    IF i <= Len(s) /\ IsSpace(SubSeq(s, i, i)) THEN SkipSpace(s, i + 1) ELSE i

\* what open(path, 'r').read() returns for the text of a file: universal
\* newlines, \r\n and \r are read as \n
read_text(s) == str_replace(str_replace(s, "\r\n", "\n", -1), "\r", "\n", -1)

RECURSIVE str_split(_, _)
\* s.split(sep)
str_split(s, sep) ==
    LET i == str_find(s, sep, 1)
    IN  IF i = 0 THEN <<s>>
        ELSE <<SubSeq(s, 1, i - 1)>> \o str_split(SubSeq(s, i + Len(sep), Len(s)), sep)

RECURSIVE str_join(_, _)
\* sep.join(parts)
str_join(parts, sep) ==
    IF parts = << >> THEN ""
    ELSE IF Len(parts) = 1 THEN parts[1]
    ELSE parts[1] \o sep \o str_join(Tail(parts), sep)

IsPathPart(x) == x # "" /\ x # "."

\* str(Path(s)) for a relative s: empty and "." segments are dropped
path_str(s) ==
    LET parts == SelectSeq(str_split(s, "/"), IsPathPart)
    IN  IF parts = << >> THEN "." ELSE str_join(parts, "/")

(***************************************************************************)
(* The pattern of process_html_file,                                       *)
(*   class="[^"]*wsite-section-bg-image[^"]*"[^>]*?style="                 *)
(*     ([^"]*?background-image:\s*url\((_/uploads/[^)]+?)\.html\)[^"]*?)"  *)
(* matched as re does: leftmost start, lazy quantifiers tried shortest     *)
(* first, the next search starting after the end of the last match.        *)
(***************************************************************************)
MARKER == "wsite-section-bg-image"
CLASS_OPEN == "class=" \o DQ
STYLE_OPEN == "style=" \o DQ
BG_IMAGE == "background-image:"
URL_OPEN == "url("
UPLOADS == "_/uploads/"
HTML_CLOSE == ".html)"

NoMatch == [ok |-> FALSE]

\* background-image:\s*url\((_/uploads/[^)]+?)\.html\)[^"]*?" with the
\* declaration at k, inside the style value that starts at v
decl_at(s, v, k) ==
    LET u  == SkipSpace(s, k + Len(BG_IMAGE))
        p0 == u + Len(URL_OPEN)
        c  == str_find(s, ")", p0 + Len(UPLOADS))
        e  == c - (Len(HTML_CLOSE) - 1)
        q2 == str_find(s, DQ, c + 1)
    IN  IF /\ StartsAt(s, u, URL_OPEN)
           /\ StartsAt(s, p0, UPLOADS)
           /\ c # 0
           /\ e >= p0 + Len(UPLOADS) + 1
           /\ StartsAt(s, e, HTML_CLOSE)
           /\ q2 # 0
        THEN [ok |-> TRUE,
              full_style |-> SubSeq(s, v, q2 - 1),
              image_path |-> SubSeq(s, p0, e - 1),
              style_from |-> v, style_to |-> q2 - 1,
              url_from |-> u, url_to |-> c,
              end |-> q2]
        ELSE NoMatch

\* ([^"]*?background-image: ... )" with the style attribute at j
style_at(s, j) ==
    LET v  == j + Len(STYLE_OPEN)
        q  == str_find(s, DQ, v)
        lim == IF q = 0 THEN Len(s) + 1 ELSE q
        K  == {k \in v..(lim - 1) : StartsAt(s, k, BG_IMAGE) /\ decl_at(s, v, k).ok}
    IN  IF K = {} THEN NoMatch ELSE decl_at(s, v, Min(K))

\* the whole pattern with class=" at i
match_at(s, i) ==
    LET v  == i + Len(CLASS_OPEN)
        q1 == str_find(s, DQ, v)
        g  == str_find(s, ">", q1 + 1)
        lim == IF g = 0 THEN Len(s) + 1 ELSE g
        J  == {j \in (q1 + 1)..(lim - 1) : StartsAt(s, j, STYLE_OPEN) /\ style_at(s, j).ok}
    IN  IF /\ StartsAt(s, i, CLASS_OPEN)
           /\ q1 # 0
           /\ str_contains(SubSeq(s, v, q1 - 1), MARKER)
           /\ J # {}
        THEN style_at(s, Min(J))
        ELSE NoMatch

RECURSIVE re_finditer(_, _)
\* the matches of the pattern in s at or after from, in document order,
\* each with its captures and the positions they were found at
re_finditer(s, from) ==
    LET I == {i \in from..Len(s) : StartsAt(s, i, CLASS_OPEN) /\ match_at(s, i).ok}
    IN  IF I = {} THEN << >>
        ELSE LET m == match_at(s, Min(I))
             IN  <<m>> \o re_finditer(s, m.end + 1)

\* re.findall(pattern, content): the (full_style, image_path) tuples
re_findall(s) ==
    LET ms == re_finditer(s, 1)
    IN  [n \in 1..Len(ms) |-> <<ms[n].full_style, ms[n].image_path>>]

(***************************************************************************)
(* download_image: the strings it builds.                                  *)
(***************************************************************************)
\* exts with the first two extensions swapped
exts_jpg_first == <<".jpg", ".png", ".jpeg">>

exts == <<".png", ".jpg", ".jpeg">>
HOST == "https://tgv4plus.com/"

\* image_path[2:] if image_path.startswith('_/') else image_path
remote_path(image_path) ==
    IF str_startswith(image_path, "_/")
    THEN SubSeq(image_path, 3, Len(image_path))
    ELSE image_path

\* the URL of the GET for one extension
request_url(image_path, ext) == HOST \o remote_path(image_path) \o ext

\* the file the response body is saved to: Path(f"_/{remote_path}{ext}")
local_path(image_path, ext) == path_str("_/" \o remote_path(image_path) \o ext)

\* the value download_image returns after saving
local_reference(image_path, ext) == "./" \o remote_path(image_path) \o ext

(***************************************************************************)
(* process_html_file: the strings it builds.                               *)
(***************************************************************************)
\* full_style.replace(old_url, new_url)
new_style_of(full_style, image_path, new_path) ==
    str_replace(full_style, "url(" \o image_path \o ".html)",
                "url(" \o new_path \o ")", -1)

RECURSIVE apply_replacements_all(_, _)
\* apply_replacements without the count argument of replace
apply_replacements_all(content, reps) ==
    IF reps = << >> THEN content
    ELSE apply_replacements_all(
             str_replace(content,
                         STYLE_OPEN \o Head(reps)[1] \o DQ,
                         STYLE_OPEN \o Head(reps)[2] \o DQ, -1),
             Tail(reps))

RECURSIVE apply_replacements(_, _)
\* for old_style, new_style in replacements:
\*     content = content.replace('style="old"', 'style="new"', 1)
apply_replacements(content, reps) ==
    IF reps = << >> THEN content
    ELSE apply_replacements(
             str_replace(content,
                         STYLE_OPEN \o Head(reps)[1] \o DQ,
                         STYLE_OPEN \o Head(reps)[2] \o DQ, 1),
             Tail(reps))

(***************************************************************************)
(* The HTML files the directory can hold: concatenations of elements.      *)
(***************************************************************************)
\* an element the pattern matches, with placeholder URL _/uploads/<p>.html
ElemTarget(p) ==
    "<div " \o CLASS_OPEN \o MARKER \o DQ \o " " \o STYLE_OPEN
        \o "background-image: url(_/uploads/" \o p \o ".html)" \o DQ \o ">"

\* the same style attribute on an element without the marker class
ElemOther(p) ==
    "<div " \o STYLE_OPEN
        \o "background-image: url(_/uploads/" \o p \o ".html)" \o DQ \o ">"

\* the marker class on an element without a style attribute
ElemBare == "<div " \o CLASS_OPEN \o MARKER \o DQ \o ">"

Targets == {ElemTarget("a"), ElemTarget("b")}

RECURSIVE TargetRuns(_)
\* n target elements in a row
TargetRuns(n) ==
    IF n = 0 THEN {""}
    ELSE {d \o e : d \in TargetRuns(n - 1), e \in Targets}

\* up to MaxTargets target elements, alone, or after or before an element
\* that carries the style attribute of ElemTarget("a") and no class
Pages ==
    LET Bodies == UNION {TargetRuns(n) : n \in 0..MaxTargets}
    IN  Bodies \cup {ElemOther("a") \o body : body \in Bodies}
               \cup {body \o ElemOther("a") : body \in Bodies}

\* files of one element
SmallPages == {ElemBare, ElemOther("a"), ElemTarget("a")}

\* files of one target element: with \r\n line ends, and with a "." segment
\* in the path of the image
OddPages == {ElemTarget("a") \o "\r\n" \o "<p>" \o "\r\n", ElemTarget("./a")}

\* the directory listings: no file, one file, or two files
Listings ==
    {<< >>} \cup {<<d>> : d \in Pages \cup SmallPages \cup OddPages}
            \cup {<<d, e>> : d \in SmallPages, e \in SmallPages}

(***************************************************************************)
(* State.                                                                  *)
(***************************************************************************)
VARIABLES
    dirExists,         \* Path('_').exists()
    disk,              \* the *.html files of _/, in glob order: their text
    images,            \* the image files saved under _/
    pc,                \* "start", "loop", "download", "returned", "apply",
                       \*   "exited", "aborted"
    exit_code,         \* the status the script ended with, -1 before it ends
    idx,               \* position of the for loop of main in html_files
    processed_count,
    modified_count,
    original_content,  \* locals of process_html_file
    matches,
    mi,                \* position of the for loop over matches
    ei,                \* position of the for loop over the extensions
    new_path,          \* what download_image returned for matches[mi]
    replacements,
    modified,
    success,           \* what the last call of process_html_file returned
    run,               \* observations: the invocation of main
    snap,              \*   disk when this invocation started
    scanned,           \*   files read by the pre-check, in order
    called,            \*   files process_html_file was invoked on
    gets,              \*   files a GET was issued for
    wrote,             \*   files written back
    attempts,          \*   the GETs of the download_image call in progress,
                       \*   until the caller has taken what it returned
    results,           \*   what download_image returned for each match so far
    rewritten,         \*   files saved with a replacement for every match
    migrated           \*   rewritten at the end of the previous invocation

vars == <<dirExists, disk, images, pc, exit_code, idx, processed_count,
          modified_count, original_content, matches, mi, ei, new_path, replacements,
          modified, success, run, snap, scanned, called, gets, wrote,
          attempts, results, rewritten, migrated>>

env == <<dirExists, run, snap, migrated>>
locals == <<original_content, matches, mi, ei, new_path, replacements, modified>>
counts == <<processed_count, modified_count>>

None == "None"

Init ==
    /\ dirExists \in BOOLEAN
    /\ disk \in (IF dirExists THEN Listings ELSE {<< >>})
    /\ images = {}
    /\ pc = "start"
    /\ exit_code = -1
    /\ idx = 0
    /\ processed_count = 0
    /\ modified_count = 0
    /\ original_content = ""
    /\ matches = << >>
    /\ mi = 0
    /\ ei = 0
    /\ new_path = None
    /\ replacements = << >>
    /\ modified = FALSE
    /\ success = "-"
    /\ run = 1
    /\ snap = disk
    /\ scanned = << >>
    /\ called = << >>
    /\ gets = {}
    /\ wrote = {}
    /\ attempts = << >>
    /\ results = << >>
    /\ rewritten = {}
    /\ migrated = {}

(***************************************************************************)
(* main.                                                                   *)
(***************************************************************************)
\* if not html_dir.exists(): sys.exit(1)
main_no_dir ==
    /\ pc = "start"
    /\ ~dirExists
    /\ pc' = "exited"
    /\ exit_code' = 1
    /\ UNCHANGED <<env, disk, images, idx, counts, locals, success, scanned,
                   called, gets, wrote, attempts, results, rewritten>>

\* main_no_files without the exit: the loop runs over no file
main_no_files_goes_on ==
    /\ pc = "start"
    /\ dirExists
    /\ disk = << >>
    /\ pc' = "loop"
    /\ idx' = 1
    /\ UNCHANGED <<env, disk, images, exit_code, counts, locals, success,
                   scanned, called, gets, wrote, attempts, results, rewritten>>

\* if not html_files: sys.exit(1)
main_no_files ==
    /\ pc = "start"
    /\ dirExists
    /\ disk = << >>
    /\ pc' = "exited"
    /\ exit_code' = 1
    /\ UNCHANGED <<env, disk, images, idx, counts, locals, success, scanned,
                   called, gets, wrote, attempts, results, rewritten>>

\* the counters are set and the loop over html_files starts
main_begin ==
    /\ pc = "start"
    /\ dirExists
    /\ disk # << >>
    /\ pc' = "loop"
    /\ idx' = 1
    /\ processed_count' = 0
    /\ modified_count' = 0
    /\ UNCHANGED <<env, disk, images, exit_code, locals, success, scanned,
                   called, gets, wrote, attempts, results, rewritten>>

\* open or read of the pre-check raises (the entry is a directory, is not
\* readable, is not UTF-8): nothing catches it, the script ends with the
\* traceback and status 1
main_read_error ==
    /\ pc = "loop"
    /\ idx <= Len(disk)
    /\ pc' = "aborted"
    /\ exit_code' = 1
    /\ UNCHANGED <<env, disk, images, idx, counts, locals, success, scanned,
                   called, gets, wrote, attempts, results, rewritten>>

\* the pre-check fails: the file does not contain the marker
main_skip_file ==
    /\ pc = "loop"
    /\ idx <= Len(disk)
    /\ ~str_contains(read_text(disk[idx]), MARKER)
    /\ idx' = idx + 1
    /\ scanned' = Append(scanned, idx)
    /\ success' = "-"
    /\ UNCHANGED <<env, disk, images, pc, exit_code, counts, locals, called,
                   gets, wrote, attempts, results, rewritten>>

\* the summary is printed and main returns
main_summary ==
    /\ pc = "loop"
    /\ idx > Len(disk)
    /\ pc' = "exited"
    /\ exit_code' = 0
    /\ UNCHANGED <<env, disk, images, idx, counts, locals, success, scanned,
                   called, gets, wrote, attempts, results, rewritten>>

\* after main has exited, the script is started again on the same directory
main_again ==
    /\ pc = "exited"
    /\ run < MaxRuns
    /\ run' = run + 1
    /\ snap' = disk
    /\ pc' = "start"
    /\ exit_code' = -1
    /\ idx' = 0
    /\ processed_count' = 0
    /\ modified_count' = 0
    /\ original_content' = ""
    /\ matches' = << >>
    /\ mi' = 0
    /\ ei' = 0
    /\ new_path' = None
    /\ replacements' = << >>
    /\ modified' = FALSE
    /\ success' = "-"
    /\ scanned' = << >>
    /\ called' = << >>
    /\ gets' = {}
    /\ wrote' = {}
    /\ attempts' = << >>
    /\ results' = << >>
    /\ rewritten' = {}
    /\ migrated' = rewritten
    /\ UNCHANGED <<dirExists, disk, images>>

(***************************************************************************)
(* process_html_file, called by the loop of main on a file that contains   *)
(* the marker.                                                             *)
(***************************************************************************)
\* process_no_match with the file written back all the same
process_no_match_writes ==
    /\ pc = "loop"
    /\ idx <= Len(disk)
    /\ str_contains(read_text(disk[idx]), MARKER)
    /\ re_findall(read_text(disk[idx])) = << >>
    /\ processed_count' = processed_count + 1
    /\ original_content' = read_text(disk[idx])
    /\ matches' = << >>
    /\ replacements' = << >>
    /\ modified' = FALSE
    /\ results' = << >>
    /\ attempts' = << >>
    /\ success' = "False"
    /\ idx' = idx + 1
    /\ scanned' = Append(scanned, idx)
    /\ called' = Append(called, idx)
    /\ wrote' = wrote \cup {idx}
    /\ UNCHANGED <<env, disk, images, pc, exit_code, modified_count, mi, ei,
                   new_path, gets, rewritten>>

\* re.findall finds nothing: return False
process_no_match ==
    /\ pc = "loop"
    /\ idx <= Len(disk)
    /\ str_contains(read_text(disk[idx]), MARKER)
    /\ re_findall(read_text(disk[idx])) = << >>
    /\ processed_count' = processed_count + 1
    /\ original_content' = read_text(disk[idx])
    /\ matches' = << >>
    /\ replacements' = << >>
    /\ modified' = FALSE
    /\ results' = << >>
    /\ attempts' = << >>
    /\ success' = "False"
    /\ idx' = idx + 1
    /\ scanned' = Append(scanned, idx)
    /\ called' = Append(called, idx)
    /\ UNCHANGED <<env, disk, images, pc, exit_code, modified_count, mi, ei,
                   new_path, gets, wrote, rewritten>>

\* the pre-check passes and process_html_file is called, and its own open
\* or read raises: the script ends as in main_read_error
process_read_error ==
    /\ pc = "loop"
    /\ idx <= Len(disk)
    /\ str_contains(read_text(disk[idx]), MARKER)
    /\ processed_count' = processed_count + 1
    /\ scanned' = Append(scanned, idx)
    /\ called' = Append(called, idx)
    /\ success' = "-"
    /\ pc' = "aborted"
    /\ exit_code' = 1
    /\ UNCHANGED <<env, disk, images, idx, modified_count, locals, gets, wrote,
                   attempts, results, rewritten>>

\* re.findall finds matches: the loop over them starts
process_begin ==
    /\ pc = "loop"
    /\ idx <= Len(disk)
    /\ str_contains(read_text(disk[idx]), MARKER)
    /\ re_findall(read_text(disk[idx])) # << >>
    /\ processed_count' = processed_count + 1
    /\ original_content' = read_text(disk[idx])
    /\ matches' = re_findall(read_text(disk[idx]))
    /\ replacements' = << >>
    /\ modified' = FALSE
    /\ results' = << >>
    /\ attempts' = << >>
    /\ success' = "-"
    /\ mi' = 1
    /\ ei' = 1
    /\ new_path' = None
    /\ pc' = "download"
    /\ scanned' = Append(scanned, idx)
    /\ called' = Append(called, idx)
    /\ UNCHANGED <<env, disk, images, exit_code, idx, modified_count, gets,
                   wrote, rewritten>>

(***************************************************************************)
(* download_image, called for matches[mi]: one step per GET.               *)
(***************************************************************************)
\* what a GET that does not end in a saved file can do: answer a status
\* other than 200, raise (transport error, timeout), or answer 200 and
\* have mkdir, open or write raise OSError
FailOutcomes == {"404", "exc", "oserror"}

\* the image files after a GET with that outcome: when the save raised, the
\* file is there if it was f.write that raised, and is not if mkdir or open
LeftBehind(outcome) ==
    IF outcome = "oserror"
    THEN {images, images \cup {local_path(matches[mi][2], exts[ei])}}
    ELSE {images}

\* the entry the GET for extension ei adds to the log of this call
Attempt(outcome) ==
    [ext |-> exts[ei], url |-> request_url(matches[mi][2], exts[ei]),
     outcome |-> outcome]

Logged(outcome) == Append(attempts, Attempt(outcome))

\* the GET answers 200 and the body is saved: download_image returns the
\* local reference
download_saved ==
    /\ pc = "download"
    /\ images' = images \cup {local_path(matches[mi][2], exts[ei])}
    /\ new_path' = local_reference(matches[mi][2], exts[ei])
    /\ pc' = "returned"
    /\ attempts' = Logged("saved")
    /\ gets' = gets \cup {idx}
    /\ UNCHANGED <<env, disk, exit_code, idx, counts, original_content,
                   matches, mi, ei, replacements, modified, success, scanned,
                   called, wrote, results, rewritten>>

\* download_failed without the except clause: a transport error leaves
\* download_image and main
download_failed_raises ==
    /\ pc = "download"
    /\ gets' = gets \cup {idx}
    /\ \E outcome \in FailOutcomes :
          /\ attempts' = Logged(outcome)
          /\ images' \in LeftBehind(outcome)
          /\ IF outcome = "exc"
             THEN /\ pc' = "aborted"
                  /\ exit_code' = 1
                  /\ UNCHANGED <<ei, new_path>>
             ELSE /\ UNCHANGED exit_code
                  /\ IF ei < Len(exts)
                     THEN /\ ei' = ei + 1
                          /\ UNCHANGED <<pc, new_path>>
                     ELSE /\ new_path' = None
                          /\ pc' = "returned"
                          /\ UNCHANGED ei
    /\ UNCHANGED <<env, disk, idx, counts, original_content, matches, mi,
                   replacements, modified, success, scanned, called, wrote,
                   results, rewritten>>

\* download_failed with the try around requests.get alone: an OSError of
\* the save leaves download_image and main
download_failed_oserror_raises ==
    /\ pc = "download"
    /\ gets' = gets \cup {idx}
    /\ \E outcome \in FailOutcomes :
          /\ attempts' = Logged(outcome)
          /\ images' \in LeftBehind(outcome)
          /\ IF outcome = "oserror"
             THEN /\ pc' = "aborted"
                  /\ exit_code' = 1
                  /\ UNCHANGED <<ei, new_path>>
             ELSE /\ UNCHANGED exit_code
                  /\ IF ei < Len(exts)
                     THEN /\ ei' = ei + 1
                          /\ UNCHANGED <<pc, new_path>>
                     ELSE /\ new_path' = None
                          /\ pc' = "returned"
                          /\ UNCHANGED ei
    /\ UNCHANGED <<env, disk, idx, counts, original_content, matches, mi,
                   replacements, modified, success, scanned, called, wrote,
                   results, rewritten>>

\* the GET fails, or the save raises: the except clause logs it and the
\* loop goes on with the next extension; after the last one download_image
\* returns None
download_failed ==
    /\ pc = "download"
    /\ gets' = gets \cup {idx}
    /\ \E outcome \in FailOutcomes :
          /\ attempts' = Logged(outcome)
          /\ images' \in LeftBehind(outcome)
    /\ IF ei < Len(exts)
       THEN /\ ei' = ei + 1
            /\ UNCHANGED <<pc, new_path>>
       ELSE /\ new_path' = None
            /\ pc' = "returned"
            /\ UNCHANGED ei
    /\ UNCHANGED <<env, disk, exit_code, idx, counts, original_content,
                   matches, mi, replacements, modified, success, scanned,
                   called, wrote, results, rewritten>>

(***************************************************************************)
(* process_html_file: the rest of the body of the loop over matches, once  *)
(* download_image has returned new_path.                                   *)
(***************************************************************************)
\* the loop goes on with the next match, or ends
NextMatch ==
    IF mi < Len(matches)
    THEN /\ mi' = mi + 1
         /\ ei' = 1
         /\ pc' = "download"
    ELSE /\ UNCHANGED <<mi, ei>>
         /\ pc' = "apply"

\* process_record with modified = True outside the if new_path
process_record_marks_modified ==
    /\ pc = "returned"
    /\ IF new_path # None
       THEN replacements' = Append(replacements,
                <<matches[mi][1],
                  new_style_of(matches[mi][1], matches[mi][2], new_path)>>)
       ELSE UNCHANGED replacements
    /\ modified' = TRUE
    /\ results' = Append(results, new_path)
    /\ attempts' = << >>
    /\ NextMatch
    /\ UNCHANGED <<env, disk, images, exit_code, idx, counts, original_content,
                   matches, new_path, success, scanned, called, gets, wrote,
                   rewritten>>

\* if new_path: the replacement is recorded and modified set
process_record ==
    /\ pc = "returned"
    /\ IF new_path # None
       THEN /\ replacements' = Append(replacements,
                   <<matches[mi][1],
                     new_style_of(matches[mi][1], matches[mi][2], new_path)>>)
            /\ modified' = TRUE
       ELSE UNCHANGED <<replacements, modified>>
    /\ results' = Append(results, new_path)
    /\ attempts' = << >>
    /\ NextMatch
    /\ UNCHANGED <<env, disk, images, exit_code, idx, counts, original_content,
                   matches, new_path, success, scanned, called, gets, wrote,
                   rewritten>>

(***************************************************************************)
(* process_html_file after the loop over matches.                          *)
(***************************************************************************)
\* nothing was downloaded: return False
apply_unmodified ==
    /\ pc = "apply"
    /\ ~modified
    /\ success' = "False"
    /\ pc' = "loop"
    /\ idx' = idx + 1
    /\ UNCHANGED <<env, disk, images, exit_code, counts, locals, scanned,
                   called, gets, wrote, attempts, results, rewritten>>

\* the replacements are applied and the file is written: return True
apply_saved ==
    /\ pc = "apply"
    /\ modified
    /\ disk' = [disk EXCEPT ![idx] = apply_replacements(original_content, replacements)]
    /\ rewritten' = IF Len(replacements) = Len(matches)
                    THEN rewritten \cup {idx} ELSE rewritten
    /\ wrote' = wrote \cup {idx}
    /\ success' = "True"
    /\ modified_count' = modified_count + 1
    /\ pc' = "loop"
    /\ idx' = idx + 1
    /\ UNCHANGED <<env, images, exit_code, processed_count, locals, scanned,
                   called, gets, attempts, results>>

\* the file after a write-back that raised: as it was when open raised, and
\* some part of the new content, from its start, when the write or the
\* close raised
LeftOnDisk(new) == {disk[idx]} \cup {SubSeq(new, 1, k) : k \in 0..Len(new)}

\* open(filepath, 'w') or the write raises OSError, which nothing catches:
\* the script ends with the traceback and status 1
apply_write_error ==
    /\ pc = "apply"
    /\ modified
    /\ \E left \in LeftOnDisk(apply_replacements(original_content, replacements)) :
          disk' = [disk EXCEPT ![idx] = left]
    /\ pc' = "aborted"
    /\ exit_code' = 1
    /\ UNCHANGED <<env, images, idx, counts, locals, success,
                   scanned, called, gets, wrote, attempts, results, rewritten>>

Next ==
    \/ main_no_dir
    \/ main_no_files
    \/ main_begin
    \/ main_read_error
    \/ main_skip_file
    \/ main_summary
    \/ main_again
    \/ process_no_match
    \/ process_read_error
    \/ process_begin
    \/ download_saved
    \/ download_failed
    \/ process_record
    \/ apply_unmodified
    \/ apply_saved
    \/ apply_write_error

Spec == Init /\ [][Next]_vars

TypeOK ==
    /\ pc \in {"start", "loop", "download", "returned", "apply", "exited",
              "aborted"}
    /\ exit_code \in {-1, 0, 1}
    /\ success \in {"-", "True", "False"}
    /\ run \in 1..MaxRuns

(***************************************************************************)
(* Vocabulary of the properties.                                           *)
(***************************************************************************)
Last(q) == q[Len(q)]

EndsWith(s, t) ==
    /\ Len(s) >= Len(t)
    /\ SubSeq(s, Len(s) - Len(t) + 1, Len(s)) = t

\* the number of places t occurs at in s
CountOcc(s, t) ==
    Cardinality({i \in 1..(Len(s) - Len(t) + 1) : SubSeq(s, i, i + Len(t) - 1) = t})

RECURSIVE Tags(_)
\* s cut before every "<"
Tags(s) ==
    IF s = "" THEN << >>
    ELSE LET i == str_find(s, "<", 2)
         IN  IF i = 0 THEN <<s>>
             ELSE <<SubSeq(s, 1, i - 1)>> \o Tags(SubSeq(s, i, Len(s)))

\* process_html_file has returned; its locals are those of the call
HasReturned == success # "-"

\* the file the latest call of process_html_file was given
LastFile == Last(called)

\* the text of that file before the call: no other call writes it
FileBefore == snap[LastFile]

\* the matched elements of that text, with the positions they are at
Spans == re_finditer(FileBefore, 1)

RECURSIVE RewriteAt(_, _, _, _)
\* s with the url(...) token of span n, n - 1, ..., 1 replaced by
\* url(refs[n]) wherever refs[n] is a reference: the rewrite by position
RewriteAt(s, spans, refs, n) ==
    IF n = 0 THEN s
    ELSE RewriteAt(IF refs[n] = None THEN s
                   ELSE SubSeq(s, 1, spans[n].url_from - 1)
                          \o "url(" \o refs[n] \o ")"
                          \o SubSeq(s, spans[n].url_to + 1, Len(s)),
                   spans, refs, n - 1)

RECURSIVE SameOutside(_, _, _, _, _, _)
\* o from po and w from pw are equal except for the style values of the
\* spans n, n + 1, ... of o whose fetch returned a reference
SameOutside(o, w, spans, refs, n, pos) ==
    LET po == pos[1]
        pw == pos[2]
    IN  IF n > Len(spans)
        THEN SubSeq(o, po, Len(o)) = SubSeq(w, pw, Len(w))
        ELSE IF refs[n] = None
        THEN SameOutside(o, w, spans, refs, n + 1, pos)
        ELSE LET piece == SubSeq(o, po, spans[n].style_from - 1)
                 qw    == str_find(w, DQ, pw + Len(piece))
             IN  /\ StartsAt(w, pw, piece)
                 /\ qw # 0
                 /\ SameOutside(o, w, spans, refs, n + 1,
                                <<spans[n].style_to + 1, qw>>)

(***************************************************************************)
(* C1.  One match, fetched with extension .png: the file written has       *)
(* url(./<path>.png), <path> without the _/ root, where the matched        *)
(* element had url(<path>.html), and every other character is that of the  *)
(* original.                                                               *)
(***************************************************************************)
C1_SingleMatchRewrittenInPlace ==
    (/\ success = "True"
     /\ Len(matches) = 1
     /\ Len(results) = 1
     /\ EndsWith(results[1], ".png"))
    => LET path == Spans[1].image_path
           ref  == "./" \o SubSeq(path, 3, Len(path)) \o ".png"
       IN  disk[LastFile] = RewriteAt(FileBefore, Spans, <<ref>>, 1)

(***************************************************************************)
(* C4.  Whatever the fetches answer, the content written differs from the  *)
(* original only inside the style values of the matched elements whose     *)
(* fetch returned a reference.                                             *)
(***************************************************************************)
C4_OnlyFetchedMatchesChange ==
    success = "True"
    => SameOutside(FileBefore, disk[LastFile], Spans, results, 1, <<1, 1>>)

(***************************************************************************)
(* C5.  Two matches with different style values, one fetched and one       *)
(* failed on every extension: process_html_file returns True, and the      *)
(* file written has the reference in the fetched match's style value and   *)
(* the failed match's style attribute as it was.                           *)
(***************************************************************************)
C5_PartialRewrite ==
    (/\ HasReturned
     /\ Len(matches) = 2
     /\ matches[1][1] # matches[2][1]
     /\ Len(results) = 2
     /\ (results[1] = None) # (results[2] = None))
    => /\ success = "True"
       /\ disk[LastFile] = RewriteAt(FileBefore, Spans, results, 2)

(***************************************************************************)
(* C2.  process_html_file returns True and overwrites the file exactly     *)
(* when a fetch returned a local reference for at least one match;         *)
(* otherwise it returns False and the file is the one the invocation       *)
(* started with.                                                           *)
(***************************************************************************)
C2_WriteBackIffFetched ==
    HasReturned
    => LET fetched == \E n \in 1..Len(results) : results[n] # None
       IN  /\ (success = "True") <=> fetched
           /\ success = "True" => LastFile \in wrote
           /\ success = "False" => /\ LastFile \notin wrote
                                   /\ disk[LastFile] = snap[LastFile]

C2_Witness ==
    /\ success = "True"
    /\ LastFile \in wrote
    /\ Len(results) = 2
    /\ results[1] = None

(***************************************************************************)
(* C3, as stated.  The GETs of one download_image call go .png, .jpg,      *)
(* .jpeg, one per extension, and none follows a GET that answered 200.     *)
(***************************************************************************)
Answered200(a) == a.outcome \in {"saved", "oserror"}

C3_NoGetAfter200 ==
    /\ Len(attempts) <= 3
    /\ \A n \in 1..Len(attempts) : attempts[n].ext = <<".png", ".jpg", ".jpeg">>[n]
    /\ \A n \in 1..(Len(attempts) - 1) : ~Answered200(attempts[n])

(***************************************************************************)
(* C3, amended.  The GETs of one download_image call go .png, .jpg,        *)
(* .jpeg, one per extension, and none follows a GET that answered 200 and  *)
(* whose body was saved; when .png answers 404 and .jpg answers 200 and is *)
(* saved, the file saved and the reference returned end in .jpg and no     *)
(* .jpeg is requested.                                                     *)
(***************************************************************************)
C3_NoGetAfterSaved ==
    /\ Len(attempts) <= 3
    /\ \A n \in 1..Len(attempts) :
          /\ attempts[n].ext = <<".png", ".jpg", ".jpeg">>[n]
          /\ EndsWith(attempts[n].url, attempts[n].ext)
    /\ \A n \in 1..(Len(attempts) - 1) : attempts[n].outcome # "saved"
    /\ (/\ Len(attempts) >= 2
        /\ attempts[1].outcome = "404"
        /\ attempts[2].outcome = "saved")
       => /\ Len(attempts) = 2
          /\ pc = "returned"
          /\ EndsWith(new_path, ".jpg")
          /\ \E f \in images :
                /\ f = local_path(matches[mi][2], ".jpg")
                /\ EndsWith(f, ".jpg")

C3_Witness ==
    /\ pc = "returned"
    /\ Len(attempts) = 2
    /\ attempts[1].outcome = "404"
    /\ attempts[2].outcome = "saved"

(***************************************************************************)
(* C6.  A file that an invocation of main rewrote for every match, and     *)
(* whose URLs no longer match the pattern, is left alone by the next       *)
(* invocation: no GET, no write, the same text.  (Stated by its            *)
(* contrapositive: a file of migrated that the invocation touched still   *)
(* had a match when it started.  Looked at between two files, when the     *)
(* GETs of a file are done, and when main has returned; a step that ends   *)
(* the script with an error starts from one of these.)                     *)
(***************************************************************************)
C6_SecondRunIdle ==
    pc \in {"loop", "apply", "exited"}
    => \A f \in migrated :
          (f \in gets \/ f \in wrote \/ disk[f] # snap[f])
          => re_findall(snap[f]) # << >>

C6_Witness ==
    /\ run = 2
    /\ pc = "exited"
    /\ 1 \in migrated
    /\ re_findall(snap[1]) = << >>
    /\ called = <<1>>
    /\ success = "False"

(***************************************************************************)
(* C7.  download_image never raises: a status other than 200 or a          *)
(* transport error makes it go on with the next extension, and after the   *)
(* last extension it returns None; the caller then records no replacement  *)
(* and goes on with the next match, or ends the loop over the matches.     *)
(***************************************************************************)
C7_FailedGetStep ==
    /\ pc = "download"
    /\ Last(attempts').outcome \in {"404", "exc"}

C7_NeverRaises ==
    [][/\ pc = "download" => pc' \in {"download", "returned"}
       /\ C7_FailedGetStep
          => /\ mi' = mi
             /\ replacements' = replacements
             /\ modified' = modified
             /\ results' = results
             /\ IF ei < 3
                THEN pc' = "download" /\ ei' = ei + 1
                ELSE pc' = "returned" /\ new_path' = None
       /\ (pc = "returned" /\ new_path = None)
          => /\ replacements' = replacements
             /\ modified' = modified
             /\ results' = Append(results, None)
             /\ IF mi < Len(matches)
                THEN pc' = "download" /\ mi' = mi + 1 /\ ei' = 1
                ELSE pc' = "apply"]_vars

C7_Witness ==
    /\ pc = "download"
    /\ mi = 2
    /\ ei = 1
    /\ results = <<None>>
    /\ replacements = << >>
    /\ gets = {idx}

(***************************************************************************)
(* C8, as stated.  The script ends with 1, having called                   *)
(* process_html_file on nothing, issued no GET and written no file, when _ *)
(* does not exist or holds no *.html file; in every other case it ends     *)
(* with 0, having read every listed file once.                             *)
(***************************************************************************)
Ended == pc \in {"exited", "aborted"}

C8_ExitOneOnlyWithoutFiles ==
    Ended
    => IF ~dirExists \/ disk = << >>
       THEN /\ exit_code = 1
            /\ scanned = << >>
            /\ called = << >>
            /\ gets = {}
            /\ wrote = {}
       ELSE /\ exit_code = 0
            /\ scanned = [n \in 1..Len(disk) |-> n]

(***************************************************************************)
(* C8, amended.  main exits with 1, having called process_html_file on     *)
(* nothing, issued no GET and written no file, when _ does not exist or    *)
(* holds no *.html file; otherwise, when main returns, the status is 0 and *)
(* every listed file was read once, and when an error of a read or of the  *)
(* write-back ends the script, the status is 1 and the files read are the  *)
(* first ones of the listing; process_html_file is only ever called on     *)
(* files whose text contains the marker (looked at when the call starts,   *)
(* and for all the calls together when main returns).                      *)
(***************************************************************************)
JustCalled ==
    /\ called # << >>
    /\ \/ pc = "download" /\ mi = 1 /\ ei = 1
       \/ pc = "loop" /\ success = "False" /\ matches = << >>

C8_ExitCodes ==
    /\ JustCalled => str_contains(snap[LastFile], MARKER)
    /\ pc = "exited"
       => /\ \A n \in 1..Len(called) : str_contains(snap[called[n]], MARKER)
          /\ IF ~dirExists \/ disk = << >>
             THEN /\ exit_code = 1
                  /\ scanned = << >>
                  /\ called = << >>
                  /\ gets = {}
                  /\ wrote = {}
             ELSE /\ exit_code = 0
                  /\ scanned = [n \in 1..Len(disk) |-> n]
    /\ pc = "aborted"
       => /\ exit_code = 1
          /\ dirExists
          /\ disk # << >>
          /\ \E k \in 0..Len(disk) : scanned = [n \in 1..k |-> n]

C8_Witness ==
    /\ pc = "exited"
    /\ exit_code = 1
    /\ dirExists
    /\ called = << >>

(***************************************************************************)
(* C9, as stated.  Of the verbatim occurrences of a style attribute that   *)
(* has a pending replacement, only the first is substituted: every later   *)
(* one still carries the placeholder URL in the file written.              *)
(***************************************************************************)
OldAttr(n) == STYLE_OPEN \o replacements[n][1] \o DQ

\* the tags of the original that carry the old attribute of replacement n
OccTags(n) ==
    LET to == Tags(original_content)
    IN  {i \in 1..Len(to) : str_contains(to[i], OldAttr(n))}

C9_OnlyFirstOccurrence ==
    success = "True"
    => LET to == Tags(original_content)
           tw == Tags(disk[LastFile])
       IN  /\ Len(tw) = Len(to)
           /\ \A n \in 1..Len(replacements) :
                 \A i \in OccTags(n) :
                    IF i = Min(OccTags(n))
                    THEN ~str_contains(tw[i], OldAttr(n))
                    ELSE tw[i] = to[i]

(***************************************************************************)
(* C9, amended.  Each pending replacement substitutes one occurrence, the  *)
(* first one left: when k replacements were recorded for the same style    *)
(* value, its first k verbatim occurrences are substituted and every       *)
(* later one still carries the placeholder URL in the file written.        *)
(***************************************************************************)
C9_FirstOccurrencePerReplacement ==
    success = "True"
    => LET to == Tags(original_content)
           tw == Tags(disk[LastFile])
       IN  /\ Len(tw) = Len(to)
           /\ \A n \in 1..Len(replacements) :
                 LET old == OldAttr(n)
                     occ == {i \in 1..Len(to) : str_contains(to[i], old)}
                     k   == Cardinality({m \in 1..Len(replacements) :
                                            replacements[m][1] = replacements[n][1]})
                 IN  \A i \in occ :
                        IF Cardinality({j \in occ : j <= i}) <= k
                        THEN ~str_contains(tw[i], old)
                        ELSE tw[i] = to[i]

C9_Witness ==
    /\ success = "True"
    /\ Len(replacements) = 2
    /\ replacements[1][1] = replacements[2][1]
    /\ CountOcc(original_content, OldAttr(1)) = 3
    /\ CountOcc(disk[LastFile], OldAttr(1)) = 1

(***************************************************************************)
(* C10, as stated.  Whenever a filesystem operation fails, saving an       *)
(* image after a 200 or writing the HTML file back, the error propagates   *)
(* and the batch ends.                                                     *)
(***************************************************************************)
SaveErrorStep ==
    /\ pc = "download"
    /\ Last(attempts').outcome = "oserror"

WriteBackErrorStep ==
    /\ pc = "apply"
    /\ modified
    /\ success' # "True"

ReadErrorStep ==
    /\ pc = "loop"
    /\ idx <= Len(disk)
    /\ idx' = idx
    /\ pc' # "download"

C10_EveryFsErrorAborts ==
    [][SaveErrorStep \/ WriteBackErrorStep \/ ReadErrorStep
       => pc' = "aborted"]_vars

(***************************************************************************)
(* C10, amended.  An error raised while an HTML file is read or written    *)
(* back propagates and ends the batch: no later file is read.  An error    *)
(* raised while an image is saved after a 200 is caught by download_image, *)
(* which goes on with the next extension or returns None.                  *)
(***************************************************************************)
C10_OnlyHtmlFileErrorAborts ==
    [][/\ WriteBackErrorStep \/ ReadErrorStep => pc' = "aborted"
       /\ pc' = "aborted" => Len(scanned') <= idx
       /\ pc = "aborted" => pc' = "aborted"
       /\ SaveErrorStep
          => /\ mi' = mi
             /\ results' = results
             /\ IF ei < 3
                THEN pc' = "download" /\ ei' = ei + 1
                ELSE pc' = "returned" /\ new_path' = None]_vars

\* the save of the image of the first match raised and left the file, the
\* loop went on, and the write-back raised
C10_Witness ==
    /\ pc = "aborted"
    /\ run = 1
    /\ called = <<1>>
    /\ Len(matches) = 2
    /\ Len(results) = 2
    /\ matches[1][2] # matches[2][2]
    /\ results[1] = None
    /\ local_path(matches[1][2], ".png") \in images
    /\ results[2] # None
    /\ disk[1] # snap[1]

====
